---- MODULE Spec2Model ----
(***************************************************************************)
(* Model of rdkPlugins/Networking/source/TapInterface.cpp: the handle that *)
(* owns the file descriptor of the "dobby_tap0" TAP device and forwards    *)
(* name-addressed link operations to a Netlink object.                     *)
(*                                                                         *)
(* Every method of TapInterface is one action.  The system calls it makes  *)
(* (open, ioctl, close) are resolved against a small model of the process' *)
(* descriptor table with Linux semantics: close() releases an open         *)
(* descriptor whatever it returns, and fails with EBADF on a descriptor    *)
(* that is not open.  The calls made by the last method, its return value  *)
(* and the value of mFd on entry are recorded in `last`.                   *)
(***************************************************************************)
EXTENDS Integers, Sequences, FiniteSets, TLC

VARIABLES mFd,            \* TapInterface::mFd
          openFds,        \* descriptors opened through the handle and still open
          tapFds,         \* open descriptors bound to the TAP device by TUNSETIFF
          closeAttempts,  \* per descriptor: close() calls since open() last returned it
          outstanding,    \* successful open() calls minus close() calls made so far
          link,           \* state kept by the Netlink object, per interface name
          last            \* the last method call: name, mFd on entry, calls made, result

vars == <<mFd, openFds, tapFds, closeAttempts, outstanding, link, last>>

\* ------------------------------------------------------------------ bounds
\* descriptors the process can be handed by open(): 0..MaxFd
MaxFd == 2
\* close() calls followed per descriptor between two open()s of it
MaxCloseAttempts == 3

\* --------------------------------------------------------------- constants
TAP_NAME == "dobby_tap0"
InvalidFd == -1
TUN_PATH == "/dev/net/tun"
TapFlags == {"IFF_TAP", "IFF_NO_PI", "IFF_ONE_QUEUE"}
OpenFlags == {"O_CLOEXEC", "O_RDWR"}

FdPool == 0..MaxFd
IfNames == {TAP_NAME, "eth0"}
ZeroMac == <<0, 0, 0, 0, 0, 0>>
MacAddrs == {ZeroMac, <<2, 0, 0, 0, 0, 1>>, <<255, 255, 255, 255, 255, 255>>}

\* ------------------------------------------------------------ system calls
\* open("/dev/net/tun", ...): -1, or a descriptor that is not open
OpenResults(open) == {InvalidFd} \cup (FdPool \ open)

\* ioctl(fd, TUNSETIFF, ifr) with IFF_TAP and no IFF_MULTI_QUEUE: 0, or -1;
\* the name cannot be bound while another descriptor holds it
IoctlResults(fd, taps) == IF taps = {} THEN {0, -1} ELSE {-1}

\* close(fd): 0 or -1 on an open descriptor, -1 (EBADF) otherwise
CloseResults(fd, open) == IF fd \in open THEN {0, -1} ELSE {-1}

\* descriptor table after close(fd): the descriptor is released in any case
AfterClose(fd, fds) == fds \ {fd}

SysCall(c, fd, arg, r) == [call |-> c, fd |-> fd, arg |-> arg, ret |-> r]
Ifreq == [flags |-> TapFlags, name |-> TAP_NAME]

\* ---------------------------------------------------------- Netlink object
LinkCall(c, n, a, r) == [call |-> c, name |-> n, arg |-> a, ret |-> r]

\* Netlink::ifaceUp / ifaceDown(name): on success the interface's flag is set
NetlinkSetUp(l, n, v, ok) ==
    IF ok THEN [l EXCEPT !.up[n] = v] ELSE l

\* Netlink::setIfaceMAC(name, address): on success the address is stored
NetlinkSetMAC(l, n, a, ok) ==
    IF ok THEN [l EXCEPT !.mac[n] = a] ELSE l

\* Netlink::getIfaceMAC(name): the address stored for the name
NetlinkGetMAC(l, n) == l.mac[n]

\* ------------------------------------------------------------------- state
TypeOK ==
    /\ mFd \in {InvalidFd} \cup FdPool
    /\ openFds \subseteq FdPool
    /\ tapFds \subseteq openFds
    /\ closeAttempts \in [FdPool -> 0..MaxCloseAttempts]
    /\ outstanding \in (1 - MaxCloseAttempts)..1
    /\ link \in [up : [IfNames -> BOOLEAN], mac : [IfNames -> MacAddrs]]
    /\ last.op \in {"none", "create", "destroy", "isValid", "name",
                    "up", "down", "macAddress", "setMACAddress"}

Init ==
    /\ mFd = InvalidFd
    /\ openFds = {}
    /\ tapFds = {}
    /\ closeAttempts = [f \in FdPool |-> 0]
    /\ outstanding = 0
    /\ link = [up |-> [n \in IfNames |-> FALSE], mac |-> [n \in IfNames |-> ZeroMac]]
    /\ last = [op |-> "none", pre |-> InvalidFd, arg |-> <<>>, sys |-> <<>>,
               link |-> <<>>, ret |-> TRUE]

Result(op, sys, lnk, ret) ==
    [op |-> op, pre |-> mFd, arg |-> <<>>, sys |-> sys, link |-> lnk, ret |-> ret]

\* ------------------------------------------------------------- TapInterface
\* createTapInterface(), line 40: the device is already open
TapAlreadyOpen_positive(fd) == fd > 0
TapAlreadyOpen_sentinel(fd) == fd >= -1
TapAlreadyOpen(fd) == fd >= 0

\* createTapInterface(), lines 58-64: TUNSETIFF failed on the descriptor just opened
CreateRollback_leak(fd, sOpen, sIoctl) ==
    /\ mFd' = -1
    /\ openFds' = openFds \cup {fd}
    /\ outstanding' = outstanding + 1
    /\ last' = Result("create", <<sOpen, sIoctl>>, <<>>, FALSE)
    /\ UNCHANGED <<tapFds, closeAttempts, link>>
CreateRollback_retryIoctl(fd, sOpen, sIoctl) ==
    \E rc \in CloseResults(fd, openFds \cup {fd}) :
      /\ mFd' = -1
      /\ openFds' = AfterClose(fd, openFds \cup {fd})
      /\ tapFds' = AfterClose(fd, tapFds)
      /\ closeAttempts' = [closeAttempts EXCEPT ![fd] = 1]
      /\ outstanding' = outstanding + 1 - 1
      /\ last' = Result("create",
                        <<sOpen, sIoctl, sIoctl, SysCall("close", fd, "", rc)>>,
                        <<>>, FALSE)
      /\ UNCHANGED link
CreateRollback(fd, sOpen, sIoctl) ==
    \E rc \in CloseResults(fd, openFds \cup {fd}) :
      /\ mFd' = -1
      /\ openFds' = AfterClose(fd, openFds \cup {fd})
      /\ tapFds' = AfterClose(fd, tapFds)
      /\ closeAttempts' = [closeAttempts EXCEPT ![fd] = 1]
      /\ outstanding' = outstanding + 1 - 1
      /\ last' = Result("create", <<sOpen, sIoctl, SysCall("close", fd, "", rc)>>,
                        <<>>, FALSE)
      /\ UNCHANGED link

\* createTapInterface(), line 46: open() failed
OpenFailed_unchecked(fd) == FALSE
OpenFailed(fd) == fd < 0

\* bool TapInterface::createTapInterface()
createTapInterface ==
    IF TapAlreadyOpen(mFd)
    THEN /\ last' = Result("create", <<>>, <<>>, TRUE)
         /\ UNCHANGED <<mFd, openFds, tapFds, closeAttempts, outstanding, link>>
    ELSE \E fd \in OpenResults(openFds) :
           LET sOpen == SysCall("open", fd, [path |-> TUN_PATH, flags |-> OpenFlags], fd) IN
           IF OpenFailed(fd)
           THEN /\ mFd' = fd
                /\ last' = Result("create", <<sOpen>>, <<>>, FALSE)
                /\ UNCHANGED <<openFds, tapFds, closeAttempts, outstanding, link>>
           ELSE \E ret \in IoctlResults(fd, tapFds) :
                  LET sIoctl == SysCall("ioctl", fd, Ifreq, ret) IN
                  IF ret # 0
                  THEN CreateRollback(fd, sOpen, sIoctl)
                  ELSE /\ mFd' = fd
                       /\ openFds' = openFds \cup {fd}
                       /\ tapFds' = tapFds \cup {fd}
                       /\ closeAttempts' = [closeAttempts EXCEPT ![fd] = 0]
                       /\ outstanding' = outstanding + 1
                       /\ last' = Result("create", <<sOpen, sIoctl>>, <<>>, TRUE)
                       /\ UNCHANGED link

\* destroyTapInterface(), lines 77-80: close() reported an error
DestroyFailed(sys) ==
    /\ mFd' = mFd
    /\ last' = Result("destroy", sys, <<>>, FALSE)

\* destroyTapInterface(), lines 81-82: nothing to close, or close() returned 0
DestroyDone_keepFd(sys) ==
    /\ mFd' = mFd
    /\ last' = Result("destroy", sys, <<>>, TRUE)
DestroyDone(sys) ==
    /\ mFd' = -1
    /\ last' = Result("destroy", sys, <<>>, TRUE)

\* close(mFd) as destroyTapInterface() issues it, line 76
DestroyClose ==
    /\ closeAttempts[mFd] < MaxCloseAttempts
    /\ \E rc \in CloseResults(mFd, openFds) :
         /\ openFds' = AfterClose(mFd, openFds)
         /\ tapFds' = AfterClose(mFd, tapFds)
         /\ closeAttempts' = [closeAttempts EXCEPT ![mFd] = @ + 1]
         /\ outstanding' = outstanding - 1
         /\ IF rc # 0
            THEN DestroyFailed(<<SysCall("close", mFd, "", rc)>>)
            ELSE DestroyDone(<<SysCall("close", mFd, "", rc)>>)
         /\ UNCHANGED link

\* bool TapInterface::destroyTapInterface()
destroyTapInterface_closeAlways ==
    IF mFd >= 0
    THEN DestroyClose
    ELSE /\ DestroyFailed(<<SysCall("close", mFd, "", -1)>>)
         /\ UNCHANGED <<openFds, tapFds, closeAttempts, outstanding, link>>
destroyTapInterface ==
    IF mFd >= 0
    THEN DestroyClose
    ELSE /\ DestroyDone(<<>>)
         /\ UNCHANGED <<openFds, tapFds, closeAttempts, outstanding, link>>

\* the value TapInterface::isValid() returns for a descriptor value
IsValidFd(fd) == fd >= 0

\* bool TapInterface::isValid()
isValid ==
    /\ last' = Result("isValid", <<>>, <<>>, IsValidFd(mFd))
    /\ UNCHANGED <<mFd, openFds, tapFds, closeAttempts, outstanding, link>>

\* const std::string TapInterface::name()
name ==
    /\ last' = Result("name", <<>>, <<>>, TAP_NAME)
    /\ UNCHANGED <<mFd, openFds, tapFds, closeAttempts, outstanding, link>>

\* bool TapInterface::up(netlink)
up_resetOnFailure ==
    IF mFd < 0
    THEN /\ last' = Result("up", <<>>, <<>>, FALSE)
         /\ UNCHANGED <<mFd, openFds, tapFds, closeAttempts, outstanding, link>>
    ELSE \E ok \in BOOLEAN :
           /\ link' = NetlinkSetUp(link, TAP_NAME, TRUE, ok)
           /\ last' = Result("up", <<>>, <<LinkCall("ifaceUp", TAP_NAME, "", ok)>>, ok)
           /\ mFd' = IF ok THEN mFd ELSE -1
           /\ UNCHANGED <<openFds, tapFds, closeAttempts, outstanding>>
up_noGuard ==
    \E ok \in BOOLEAN :
      /\ link' = NetlinkSetUp(link, TAP_NAME, TRUE, ok)
      /\ last' = Result("up", <<>>, <<LinkCall("ifaceUp", TAP_NAME, "", ok)>>, ok)
      /\ UNCHANGED <<mFd, openFds, tapFds, closeAttempts, outstanding>>
up ==
    IF mFd < 0
    THEN /\ last' = Result("up", <<>>, <<>>, FALSE)
         /\ UNCHANGED <<mFd, openFds, tapFds, closeAttempts, outstanding, link>>
    ELSE \E ok \in BOOLEAN :
           /\ link' = NetlinkSetUp(link, TAP_NAME, TRUE, ok)
           /\ last' = Result("up", <<>>, <<LinkCall("ifaceUp", TAP_NAME, "", ok)>>, ok)
           /\ UNCHANGED <<mFd, openFds, tapFds, closeAttempts, outstanding>>

\* bool TapInterface::down(netlink)
down_noGuard ==
    \E ok \in BOOLEAN :
      /\ link' = NetlinkSetUp(link, TAP_NAME, FALSE, ok)
      /\ last' = Result("down", <<>>, <<LinkCall("ifaceDown", TAP_NAME, "", ok)>>, ok)
      /\ UNCHANGED <<mFd, openFds, tapFds, closeAttempts, outstanding>>
down_callsUp ==
    IF mFd < 0
    THEN /\ last' = Result("down", <<>>, <<>>, FALSE)
         /\ UNCHANGED <<mFd, openFds, tapFds, closeAttempts, outstanding, link>>
    ELSE \E ok \in BOOLEAN :
           /\ link' = NetlinkSetUp(link, TAP_NAME, TRUE, ok)
           /\ last' = Result("down", <<>>, <<LinkCall("ifaceUp", TAP_NAME, "", ok)>>, ok)
           /\ UNCHANGED <<mFd, openFds, tapFds, closeAttempts, outstanding>>
down ==
    IF mFd < 0
    THEN /\ last' = Result("down", <<>>, <<>>, FALSE)
         /\ UNCHANGED <<mFd, openFds, tapFds, closeAttempts, outstanding, link>>
    ELSE \E ok \in BOOLEAN :
           /\ link' = NetlinkSetUp(link, TAP_NAME, FALSE, ok)
           /\ last' = Result("down", <<>>, <<LinkCall("ifaceDown", TAP_NAME, "", ok)>>, ok)
           /\ UNCHANGED <<mFd, openFds, tapFds, closeAttempts, outstanding>>

\* std::array<uint8_t, 6> TapInterface::macAddress(netlink)
macAddress_otherName ==
    LET addr == NetlinkGetMAC(link, "eth0") IN
    /\ last' = Result("macAddress", <<>>,
                      <<LinkCall("getIfaceMAC", "eth0", "", addr)>>, addr)
    /\ UNCHANGED <<mFd, openFds, tapFds, closeAttempts, outstanding, link>>
macAddress ==
    LET addr == NetlinkGetMAC(link, TAP_NAME) IN
    /\ last' = Result("macAddress", <<>>,
                      <<LinkCall("getIfaceMAC", TAP_NAME, "", addr)>>, addr)
    /\ UNCHANGED <<mFd, openFds, tapFds, closeAttempts, outstanding, link>>

\* bool TapInterface::setMACAddress(netlink, address)
setMACAddress_guarded ==
    \E address \in MacAddrs, ok \in BOOLEAN :
      IF mFd < 0
      THEN /\ last' = [Result("setMACAddress", <<>>, <<>>, FALSE)
                          EXCEPT !.arg = address]
           /\ UNCHANGED <<mFd, openFds, tapFds, closeAttempts, outstanding, link>>
      ELSE /\ link' = NetlinkSetMAC(link, TAP_NAME, address, ok)
           /\ last' = [Result("setMACAddress", <<>>,
                              <<LinkCall("setIfaceMAC", TAP_NAME, address, ok)>>, ok)
                          EXCEPT !.arg = address]
           /\ UNCHANGED <<mFd, openFds, tapFds, closeAttempts, outstanding>>
setMACAddress ==
    \E address \in MacAddrs, ok \in BOOLEAN :
      /\ link' = NetlinkSetMAC(link, TAP_NAME, address, ok)
      /\ last' = [Result("setMACAddress", <<>>,
                         <<LinkCall("setIfaceMAC", TAP_NAME, address, ok)>>, ok)
                     EXCEPT !.arg = address]
      /\ UNCHANGED <<mFd, openFds, tapFds, closeAttempts, outstanding>>

Next ==
    \/ createTapInterface
    \/ destroyTapInterface
    \/ isValid
    \/ name
    \/ up
    \/ down
    \/ macAddress
    \/ setMACAddress

Spec == Init /\ [][Next]_vars

\* ------------------------------------------------------------------ claims
\* what the last method did
CloseCalls == {i \in DOMAIN last.sys : last.sys[i].call = "close"}
LinkCalls(c) == {i \in DOMAIN last.link : last.link[i].call = c}
EnteredValid == IsValidFd(last.pre)

\* C1: when destroy() is called on a valid handle and close() reports an
\* error, destroy() returns false and the handle is invalid afterwards.
C1_DestroyCloseErrorInvalidates ==
    (/\ last.op = "destroy"
     /\ EnteredValid
     /\ \E i \in CloseCalls : last.sys[i].ret # 0)
    => (last.ret = FALSE /\ ~IsValidFd(mFd))

\* C2: close() is never attempted twice on the same descriptor: between two
\* open() calls that return a descriptor, at most one close() is issued on it.
C2_NoDoubleClose ==
    \A fd \in FdPool : closeAttempts[fd] <= 1

\* C3: when create() is called on an invalid handle, open() succeeds and the
\* TUNSETIFF ioctl fails, the descriptor just opened is closed exactly once,
\* the handle is invalid, create() returns false and the descriptor is not
\* left open.
C3_Case ==
    /\ last.op = "create"
    /\ ~EnteredValid
    /\ Len(last.sys) >= 2
    /\ last.sys[1].call = "open" /\ last.sys[1].ret >= 0
    /\ last.sys[2].call = "ioctl" /\ last.sys[2].ret # 0
C3_CreateRollsBack ==
    C3_Case =>
      /\ Cardinality(CloseCalls) = 1
      /\ \A i \in CloseCalls : last.sys[i].fd = last.sys[1].ret
      /\ ~IsValidFd(mFd)
      /\ last.ret = FALSE
      /\ last.sys[1].ret \notin openFds
C3_Witness ==
    C3_Case /\ last.sys[1].ret = 1

\* C4: create() on a valid handle returns true, issues neither open() nor
\* the ioctl and changes nothing: descriptor, open descriptors and the
\* registered interface stay as the first create() left them.
C4_CreateIdempotent ==
    [][(last'.op = "create" /\ IsValidFd(mFd))
         => /\ last'.ret = TRUE
            /\ last'.sys = <<>>
            /\ UNCHANGED <<mFd, openFds, tapFds, closeAttempts, outstanding, link>>]_vars
C4_Witness ==
    /\ last.op = "create" /\ EnteredValid /\ last.ret = TRUE
    /\ last.sys = <<>>
    /\ mFd = 0 /\ mFd \in tapFds

\* C5 (as stated): no call to the link controller (ifaceUp, ifaceDown,
\* getIfaceMAC, setIfaceMAC) is made while the handle is invalid.
C5_ValidityGatesEveryLinkCall ==
    last.link # <<>> => EnteredValid
\* C5 (amended): no ifaceUp or ifaceDown call is made while the handle is
\* invalid; getIfaceMAC and setIfaceMAC are called whatever isValid() says.
C5_ValidityGatesUpDown ==
    /\ (LinkCalls("ifaceUp") \cup LinkCalls("ifaceDown")) # {} => EnteredValid
    /\ last.op = "macAddress" => LinkCalls("getIfaceMAC") # {}
    /\ last.op = "setMACAddress" => LinkCalls("setIfaceMAC") # {}
C5_Witness ==
    /\ LinkCalls("ifaceUp") # {}
    /\ EnteredValid
    /\ last.ret = TRUE

\* C6: in every state the descriptor is the invalid sentinel or an open
\* descriptor bound to the registered TAP device; isValid() is never true
\* for a descriptor that was closed or never configured.
C6_DescriptorLive ==
    mFd = InvalidFd \/ (mFd \in openFds /\ mFd \in tapFds)

\* C7: up() and down() called on an invalid handle return false and make no
\* call to the link controller.
C7_UpDownInvalidFail ==
    (last.op \in {"up", "down"} /\ ~EnteredValid)
    => (last.ret = FALSE /\ last.link = <<>>)
C7_Witness ==
    /\ last.op = "down" /\ ~EnteredValid
    /\ last.ret = FALSE
    /\ \E fd \in FdPool : closeAttempts[fd] = 1

\* C8: up() on a valid handle makes exactly one ifaceUp call with the name
\* "dobby_tap0" and returns its result; down() does the same with ifaceDown.
DelegatesOnce(c) ==
    /\ Len(last.link) = 1
    /\ last.link[1].call = c
    /\ last.link[1].name = "dobby_tap0"
    /\ last.ret = last.link[1].ret
C8_UpDownDelegate ==
    /\ (last.op = "up" /\ EnteredValid) => DelegatesOnce("ifaceUp")
    /\ (last.op = "down" /\ EnteredValid) => DelegatesOnce("ifaceDown")
C8_Witness ==
    /\ last.op = "down" /\ EnteredValid
    /\ last.ret = FALSE
    /\ link.up[TAP_NAME] = TRUE

\* C9: destroy() on a handle that was never created or was already
\* destroyed returns true, does not call close() and leaves the handle
\* invalid.
C9_DestroyInvalidSucceeds ==
    (last.op = "destroy" /\ ~EnteredValid)
    => (last.ret = TRUE /\ last.sys = <<>> /\ ~IsValidFd(mFd))
C9_Witness ==
    /\ last.op = "destroy" /\ ~EnteredValid
    /\ last.ret = TRUE
    /\ \E fd \in FdPool : closeAttempts[fd] = 1

\* C10: after a create() that returns true the handle is valid, after a
\* destroy() that returns true it is invalid, and name() returns
\* "dobby_tap0" whenever it is called.
C10_ResultMatchesValidity ==
    /\ (last.op = "create" /\ last.ret = TRUE) => IsValidFd(mFd)
    /\ (last.op = "destroy" /\ last.ret = TRUE) => ~IsValidFd(mFd)
    /\ last.op = "name" => last.ret = "dobby_tap0"
C10_Witness ==
    /\ last.op = "destroy" /\ last.ret = TRUE
    /\ EnteredValid
    /\ Len(last.sys) = 1

\* C11: when create() is called on an invalid handle and open() fails,
\* create() returns false, the handle stays invalid and neither the ioctl
\* nor close() is attempted.
C11_Case ==
    /\ last.op = "create"
    /\ ~EnteredValid
    /\ Len(last.sys) >= 1
    /\ last.sys[1].call = "open" /\ last.sys[1].ret < 0
C11_OpenFailureStops ==
    C11_Case =>
      /\ last.ret = FALSE
      /\ ~IsValidFd(mFd)
      /\ Len(last.sys) = 1
C11_Witness ==
    /\ C11_Case
    /\ last.ret = FALSE
    /\ openFds = {}

\* C12: with a link controller that stores the address per interface name,
\* a setMACAddress(a) that returns true followed by macAddress() returns a.
C12_MacRoundTrip ==
    [][(/\ last.op = "setMACAddress"
        /\ last.ret = TRUE
        /\ last'.op = "macAddress")
         => last'.ret = last.arg]_vars
C12_Witness ==
    /\ last.op = "macAddress"
    /\ last.ret = <<2, 0, 0, 0, 0, 1>>
    /\ link.mac[TAP_NAME] = last.ret

\* C13: the descriptor becomes valid only in create() and invalid only in
\* destroy() or create(); isValid(), name(), up(), down(), macAddress() and
\* setMACAddress() leave the descriptor and the descriptor table unchanged
\* and issue no open(), ioctl() or close().
QueriesAndLinkOps ==
    {"isValid", "name", "up", "down", "macAddress", "setMACAddress"}
C13_DescriptorFrame ==
    [][/\ (~IsValidFd(mFd) /\ IsValidFd(mFd')) => last'.op = "create"
       /\ (IsValidFd(mFd) /\ ~IsValidFd(mFd')) => last'.op \in {"destroy", "create"}
       /\ last'.op \in QueriesAndLinkOps
            => /\ last'.sys = <<>>
               /\ UNCHANGED <<mFd, openFds, tapFds, closeAttempts, outstanding>>]_vars
C13_Witness ==
    /\ last.op = "up" /\ EnteredValid
    /\ last.ret = FALSE
    /\ mFd = last.pre /\ mFd \in tapFds

\* C14: macAddress() and setMACAddress() have no validity guard: valid or
\* not, each makes exactly one getIfaceMAC / setIfaceMAC call with the name
\* "dobby_tap0" (and, for set, the address it was given) and returns the
\* controller's result.
C14_MacUnguarded ==
    /\ last.op = "macAddress"
         => /\ Len(last.link) = 1
            /\ last.link[1].call = "getIfaceMAC"
            /\ last.link[1].name = "dobby_tap0"
            /\ last.ret = last.link[1].ret
    /\ last.op = "setMACAddress"
         => /\ Len(last.link) = 1
            /\ last.link[1].call = "setIfaceMAC"
            /\ last.link[1].name = "dobby_tap0"
            /\ last.link[1].arg = last.arg
            /\ last.ret = last.link[1].ret
C14_Witness ==
    /\ last.op = "setMACAddress" /\ ~EnteredValid
    /\ last.ret = TRUE
    /\ last.arg = <<255, 255, 255, 255, 255, 255>>

\* C15: no method retries: one create() issues at most one open() and at
\* most one ioctl(), the ioctl only after an open() that succeeded; one
\* destroy() issues at most one close() and nothing else; up(), down(),
\* macAddress() and setMACAddress() issue at most one link-controller call;
\* create(), destroy(), up(), down() and setMACAddress() end with true or
\* false.
SysCalls(c) == {i \in DOMAIN last.sys : last.sys[i].call = c}
C15_NoRetry ==
    /\ last.op = "create"
         => /\ Cardinality(SysCalls("open")) <= 1
            /\ Cardinality(SysCalls("ioctl")) <= 1
            /\ \A i \in SysCalls("ioctl") :
                 /\ i = 2
                 /\ last.sys[1].call = "open"
                 /\ last.sys[1].ret >= 0
                 /\ last.sys[i].fd = last.sys[1].ret
    /\ last.op = "destroy"
         => /\ Cardinality(SysCalls("close")) <= 1
            /\ Len(last.sys) <= 1
    /\ last.op \in {"up", "down", "macAddress", "setMACAddress"}
         => Len(last.link) <= 1
    /\ last.op \in {"create", "destroy", "up", "down", "setMACAddress"}
         => last.ret \in BOOLEAN
C15_Witness ==
    /\ last.op = "create" /\ ~EnteredValid
    /\ Len(last.sys) = 3
    /\ last.sys[3].call = "close" /\ last.sys[3].ret # 0

\* C16: successful open() calls minus close() calls is always 0 or 1, and
\* is 0 whenever the handle is invalid.
C16_OpenCloseBalance ==
    /\ outstanding \in {0, 1}
    /\ ~IsValidFd(mFd) => outstanding = 0

\* C17: a create() that follows a destroy() that returned true, or a
\* create() that returned false, starts with an open(), issues the ioctl if
\* the open succeeded, and leaves the handle valid iff both succeeded;
\* create() makes no open() only when the handle was valid on entry.
C17_Fresh ==
    /\ Len(last'.sys) >= 1
    /\ last'.sys[1].call = "open"
    /\ last'.sys[1].ret >= 0
         => (Len(last'.sys) >= 2 /\ last'.sys[2].call = "ioctl")
    /\ IsValidFd(mFd') <=> /\ last'.sys[1].ret >= 0
                           /\ Len(last'.sys) >= 2
                           /\ last'.sys[2].ret = 0
C17_Recreate ==
    [][last'.op = "create"
         => /\ (\/ (last.op = "destroy" /\ last.ret = TRUE)
                \/ (last.op = "create" /\ last.ret = FALSE)) => C17_Fresh
            /\ last'.sys = <<>> => IsValidFd(mFd)]_vars
C17_Witness ==
    /\ last.op = "create" /\ ~EnteredValid
    /\ last.ret = TRUE
    /\ \E fd \in FdPool : fd # mFd /\ closeAttempts[fd] = 1

====
